---- MODULE Spec2Model ----
(***************************************************************************)
(* Model of Global_Scripts/audit_python_project.py: a sequential command   *)
(* line auditor.  main validates its argument, check_dependencies installs *)
(* pip-audit and scans one manifest, check_code_quality installs flake8    *)
(* and checks src/, every external command going through run_command.      *)
(*                                                                         *)
(* Text is a sequence of atoms (strings standing for runs of characters);  *)
(* an f-string is the sequence of its literal parts and substituted        *)
(* values.  The file system is a map from path to kind of entry, and the   *)
(* outcome of an external command (exit status, stdout, stderr) is chosen  *)
(* nondeterministically when the command is run.                           *)
(***************************************************************************)
EXTENDS Integers, Sequences, FiniteSets, TLC

VARIABLES
    project_path,   \* args.project_path
    fs,             \* file system: path -> "absent" | "file" | "dir"
    pc,             \* position of the single thread of control
    stdout,         \* sequence of the texts given to print(), in order
    trace,          \* sequence of system calls: isdir, exists, run
    last,           \* outcome of the most recent external command
    ret,            \* value returned by the most recent run_command call
    exit_code       \* exit status of the process, NoExit while running

vars == <<project_path, fs, pc, stdout, trace, last, ret, exit_code>>

----------------------------------------------------------------------------
(* Bounds of the model *)

\* longest standard output of an external command, in atoms
MaxOutLen == 2
NoExit == -1

ProjectPaths == {"proj", "lib"}
Kinds == {"absent", "file", "dir"}
Entries == {"pyproject.toml", "requirements.txt", "src"}

SeqsUpTo(S, n) == UNION {[1..k -> S] : k \in 0..n}

OutAtoms == {" ", "finding"}
\* standard error of an external command: silent, or an error text
StderrTexts == {<<>>, <<"err">>}
ReturnCodes == {0, 1}

\* what an external command can do: exit status and the two captured streams
Outcomes ==
    [returncode : ReturnCodes,
     stdout : SeqsUpTo(OutAtoms, MaxOutLen),
     stderr : StderrTexts]

NoOutcome == [returncode |-> 0, stdout |-> <<>>, stderr |-> <<>>]

----------------------------------------------------------------------------
(* Library functions the program calls *)

sys_executable == "python"

os_path_join(a, b) == a \o "/" \o b

os_path_exists(p) == fs[p] # "absent"

os_path_isdir_AsExists(p) == fs[p] # "absent"

os_path_isdir(p) == fs[p] = "dir"

IsSpace(a) == a \in {" ", "\n", "\t"}

RECURSIVE str_lstrip(_)
str_lstrip(t) ==
    IF t = <<>> THEN <<>>
    ELSE IF IsSpace(Head(t)) THEN str_lstrip(Tail(t)) ELSE t

RECURSIVE str_rstrip(_)
str_rstrip(t) ==
    IF t = <<>> THEN <<>>
    ELSE IF IsSpace(t[Len(t)]) THEN str_rstrip(SubSeq(t, 1, Len(t) - 1)) ELSE t

\* str.strip(): leading and trailing whitespace removed.  Every atom that is
\* not whitespace holds a non-whitespace character, so the result is empty
\* exactly when Python's is.
str_strip(t) == str_rstrip(str_lstrip(t))

\* sep.join(parts): the elements of parts with sep between them.  The code
\* passes a str, whose elements are its characters; here they are its atoms.
RECURSIVE str_join(_, _)
str_join(sep, parts) ==
    IF parts = <<>> THEN <<>>
    ELSE IF Len(parts) = 1 THEN parts
    ELSE <<Head(parts), sep>> \o str_join(sep, Tail(parts))

\* subprocess.run(..., capture_output=True, check=False): never raises
subprocess_run_NoCheck(command, o) ==
    [exc |-> "none", stdout |-> o.stdout, stderr |-> o.stderr]

\* subprocess.run(command, capture_output=True, text=True, check=True,
\* shell=True): both streams captured, CalledProcessError on a non-zero status
subprocess_run(command, o) ==
    IF o.returncode # 0
    THEN [exc |-> "CalledProcessError", stdout |-> o.stdout, stderr |-> o.stderr]
    ELSE [exc |-> "none", stdout |-> o.stdout, stderr |-> o.stderr]

----------------------------------------------------------------------------
(* run_command *)

run_command_NoCatch(command, o) ==
    LET result == subprocess_run(command, o)
    IN  IF result.exc = "none"
        THEN [raised |-> FALSE, value |-> result.stdout]
        ELSE [raised |-> TRUE, value |-> <<>>]

run_command(command, o) ==
    LET result == subprocess_run(command, o)
    IN  IF result.exc = "none"
        THEN [raised |-> FALSE, value |-> result.stdout]
        ELSE IF result.exc = "CalledProcessError"
        THEN [raised |-> FALSE,
              value |-> <<"Error running command '">> \o str_join(" ", command)
                        \o <<"': ">> \o result.stderr]
        ELSE [raised |-> TRUE, value |-> <<>>]

----------------------------------------------------------------------------
(* Texts and commands *)

pyproject_path == os_path_join(project_path, "pyproject.toml")
requirements_path == os_path_join(project_path, "requirements.txt")
src_path == os_path_join(project_path, "src")

NotFoundText(path) == <<"Error: Project path '", path, "' not found.">>
StartingText(path) == <<"--- Starting Audit for: ", path, " ---">>
DepsHeader == <<"\n--- Checking for vulnerable dependencies ---">>
AuditingPyprojectText(path) == <<"Auditing dependencies from ", path, "...">>
AuditingRequirementsText(path) == <<"Auditing ", path, "...">>
NoManifestText == <<"No pyproject.toml or requirements.txt found.">>
QualityHeader == <<"\n--- Checking code quality with flake8 ---">>
NoIssuesText == <<"flake8 found no issues.">>
NoSrcText == <<"No src/ directory found to analyze.">>
CompleteText == <<"\n--- Audit Complete ---">>

InstallPipAuditCommand == <<sys_executable, " -m pip install pip-audit">>
InstallFlake8Command == <<sys_executable, " -m pip install flake8">>
ProjectScanCommand(path) == <<"cd ", path, " && ", sys_executable, " -m pip-audit">>

RequirementsScanCommand_NoFlag(path) == <<sys_executable, " -m pip-audit">>

RequirementsScanCommand(path) == <<sys_executable, " -m pip-audit -r ", path>>

Flake8Command(path) == <<"flake8 ", path>>

Isdir(p) == [op |-> "isdir", arg |-> <<p>>]
Exists(p) == [op |-> "exists", arg |-> <<p>>]
Run(c) == [op |-> "run", arg |-> c]

----------------------------------------------------------------------------
(* Initial state: the process has parsed its argument; the file system is  *)
(* any tree in which only a directory has entries.                         *)

PathsUnder(p) == {p} \cup {os_path_join(p, e) : e \in Entries}

Init ==
    /\ project_path \in ProjectPaths
    /\ fs \in {f \in [PathsUnder(project_path) -> Kinds] :
                 f[project_path] # "dir" =>
                     \A e \in Entries : f[os_path_join(project_path, e)] = "absent"}
    /\ pc = "main"
    /\ stdout = <<>>
    /\ trace = <<>>
    /\ last = NoOutcome
    /\ ret = <<>>
    /\ exit_code = NoExit

\* an exception that reaches the top level: traceback, exit status 1
Finish(r, next) ==
    IF r.raised
    THEN pc' = "traceback" /\ exit_code' = 1
    ELSE pc' = next /\ UNCHANGED exit_code

----------------------------------------------------------------------------
(* main *)

MainNotDir ==
    /\ pc = "main"
    /\ ~os_path_isdir(project_path)
    /\ trace' = Append(trace, Isdir(project_path))
    /\ stdout' = Append(stdout, NotFoundText(project_path))
    /\ exit_code' = 1
    /\ pc' = "done"
    /\ UNCHANGED <<project_path, fs, last, ret>>

MainStart ==
    /\ pc = "main"
    /\ os_path_isdir(project_path)
    /\ trace' = Append(trace, Isdir(project_path))
    /\ stdout' = Append(stdout, StartingText(project_path))
    /\ pc' = "check_dependencies"
    /\ UNCHANGED <<project_path, fs, last, ret, exit_code>>

MainComplete ==
    /\ pc = "complete"
    /\ stdout' = Append(stdout, CompleteText)
    /\ exit_code' = 0
    /\ pc' = "done"
    /\ UNCHANGED <<project_path, fs, trace, last, ret>>

----------------------------------------------------------------------------
(* check_dependencies *)

DepsInstall_PrintsResult ==
    /\ pc = "check_dependencies"
    /\ \E o \in Outcomes :
         LET r == run_command(InstallPipAuditCommand, o)
         IN  /\ stdout' = Append(Append(stdout, DepsHeader), r.value)
             /\ trace' = Append(trace, Run(InstallPipAuditCommand))
             /\ last' = o
             /\ ret' = r.value
             /\ Finish(r, "deps_manifest")
    /\ UNCHANGED <<project_path, fs>>

DepsInstall ==
    /\ pc = "check_dependencies"
    /\ \E o \in Outcomes :
         LET r == run_command(InstallPipAuditCommand, o)
         IN  /\ stdout' = Append(stdout, DepsHeader)
             /\ trace' = Append(trace, Run(InstallPipAuditCommand))
             /\ last' = o
             /\ ret' = r.value
             /\ Finish(r, "deps_manifest")
    /\ UNCHANGED <<project_path, fs>>

deps_branch_RequirementsFirst ==
    IF os_path_exists(requirements_path) THEN "requirements"
    ELSE IF os_path_exists(pyproject_path) THEN "pyproject"
    ELSE "none"

deps_branch_NoElse ==
    IF os_path_exists(pyproject_path) THEN "pyproject" ELSE "requirements"

\* the if / elif / else of check_dependencies
deps_branch ==
    IF os_path_exists(pyproject_path) THEN "pyproject"
    ELSE IF os_path_exists(requirements_path) THEN "requirements"
    ELSE "none"

DepsPyproject ==
    /\ pc = "deps_manifest"
    /\ deps_branch = "pyproject"
    /\ \E o \in Outcomes :
         LET cmd == ProjectScanCommand(project_path)
             r == run_command(cmd, o)
         IN  /\ trace' = trace \o <<Exists(pyproject_path), Run(cmd)>>
             /\ last' = o
             /\ ret' = r.value
             /\ stdout' = stdout \o
                    (<<AuditingPyprojectText(pyproject_path)>>
                     \o IF r.raised THEN <<>> ELSE <<r.value>>)
             /\ Finish(r, "check_code_quality")
    /\ UNCHANGED <<project_path, fs>>

DepsRequirements ==
    /\ pc = "deps_manifest"
    /\ deps_branch = "requirements"
    /\ \E o \in Outcomes :
         LET cmd == RequirementsScanCommand(requirements_path)
             r == run_command(cmd, o)
         IN  /\ trace' = trace \o <<Exists(pyproject_path),
                                    Exists(requirements_path), Run(cmd)>>
             /\ last' = o
             /\ ret' = r.value
             /\ stdout' = stdout \o
                    (<<AuditingRequirementsText(requirements_path)>>
                     \o IF r.raised THEN <<>> ELSE <<r.value>>)
             /\ Finish(r, "check_code_quality")
    /\ UNCHANGED <<project_path, fs>>

DepsNone ==
    /\ pc = "deps_manifest"
    /\ deps_branch = "none"
    /\ trace' = trace \o <<Exists(pyproject_path), Exists(requirements_path)>>
    /\ stdout' = Append(stdout, NoManifestText)
    /\ pc' = "check_code_quality"
    /\ UNCHANGED <<project_path, fs, last, ret, exit_code>>

----------------------------------------------------------------------------
(* check_code_quality *)

QualityInstall ==
    /\ pc = "check_code_quality"
    /\ \E o \in Outcomes :
         LET r == run_command(InstallFlake8Command, o)
         IN  /\ stdout' = Append(stdout, QualityHeader)
             /\ trace' = Append(trace, Run(InstallFlake8Command))
             /\ last' = o
             /\ ret' = r.value
             /\ Finish(r, "quality_src")
    /\ UNCHANGED <<project_path, fs>>

quality_report_Always(quality_result) == quality_result

\* what check_code_quality prints for the text run_command returned
quality_report(quality_result) ==
    IF str_strip(quality_result) # <<>> THEN quality_result ELSE NoIssuesText

QualitySrc ==
    /\ pc = "quality_src"
    /\ os_path_exists(src_path)
    /\ \E o \in Outcomes :
         LET cmd == Flake8Command(src_path)
             r == run_command(cmd, o)
         IN  /\ trace' = trace \o <<Exists(src_path), Run(cmd)>>
             /\ last' = o
             /\ ret' = r.value
             /\ stdout' = stdout \o
                    (IF r.raised THEN <<>> ELSE <<quality_report(r.value)>>)
             /\ Finish(r, "complete")
    /\ UNCHANGED <<project_path, fs>>

QualityNoSrc ==
    /\ pc = "quality_src"
    /\ ~os_path_exists(src_path)
    /\ trace' = Append(trace, Exists(src_path))
    /\ stdout' = Append(stdout, NoSrcText)
    /\ pc' = "complete"
    /\ UNCHANGED <<project_path, fs, last, ret, exit_code>>

----------------------------------------------------------------------------

Next ==
    \/ MainNotDir
    \/ MainStart
    \/ DepsInstall
    \/ DepsPyproject
    \/ DepsRequirements
    \/ DepsNone
    \/ QualityInstall
    \/ QualitySrc
    \/ QualityNoSrc
    \/ MainComplete

Spec == Init /\ [][Next]_vars

----------------------------------------------------------------------------
(* Vocabulary of the properties *)

Contains(t, a) == \E i \in DOMAIN t : t[i] = a

IsInfix(s, t) ==
    \E i \in 0..(Len(t) - Len(s)) : SubSeq(t, i + 1, i + Len(s)) = s

IsBlank(t) == \A i \in DOMAIN t : t[i] \in {" ", "\n", "\t"}

Printed(t) == \E i \in DOMAIN stdout : stdout[i] = t

PrintedAt(t) == {i \in DOMAIN stdout : stdout[i] = t}

IsErrorText(t) == Len(t) > 0 /\ t[1] = "Error running command '"

\* the scanner in project-context mode: run from inside the target directory
ProjectContextMode(c) ==
    /\ Len(c) = 5
    /\ c[1] = "cd " /\ c[2] = project_path /\ c[3] = " && "
    /\ c[5] = " -m pip-audit"

\* the scanner in requirements-file mode
FileMode(c) == Contains(c, " -m pip-audit -r ")

FileModeOn(c, path) ==
    Len(c) = 3 /\ c[2] = " -m pip-audit -r " /\ c[3] = path

IsScanner(c) ==
    ProjectContextMode(c) \/ FileMode(c) \/ c[Len(c)] = " -m pip-audit"

IsChecker(c) == c[1] = "flake8 "

IsInstallOf(c, tool) == c = <<"python", " -m pip install " \o tool>>

IsInstall(c) == IsInstallOf(c, "pip-audit") \/ IsInstallOf(c, "flake8")

RunsWhere(P(_)) == {i \in DOMAIN trace : trace[i].op = "run" /\ P(trace[i].arg)}

ChecksOf(path) ==
    {i \in DOMAIN trace : trace[i].op = "exists" /\ trace[i].arg = <<path>>}

py == project_path \o "/pyproject.toml"
req == project_path \o "/requirements.txt"
src == project_path \o "/src"

IsDirectory == fs[project_path] = "dir"
HasPyproject == fs[py] # "absent"
HasRequirements == fs[req] # "absent"
HasSrcEntry == fs[src] # "absent"

Exited(status) == pc = "done" /\ exit_code = status
AfterQuality == pc = "complete" \/ Exited(0)
AfterDeps == pc \in {"check_code_quality", "quality_src"} \/ AfterQuality

----------------------------------------------------------------------------
(* C1: when project_path is not an existing directory, main prints one     *)
(* error text containing the path and exits with status 1 before any audit *)
(* step: no command is run, no header and no 'Audit Complete' is printed.  *)

C1_NotDirectoryExits ==
    (~IsDirectory /\ pc # "main") =>
        /\ Exited(1)
        /\ Len(stdout) = 1
        /\ stdout[1][1] = "Error: Project path '"
        /\ Contains(stdout[1], project_path)
        /\ RunsWhere(LAMBDA c : TRUE) = {}
        /\ ChecksOf(py) \cup ChecksOf(req) \cup ChecksOf(src) = {}
        /\ ~Printed(StartingText(project_path))
        /\ ~Printed(DepsHeader) /\ ~Printed(QualityHeader)
        /\ ~Printed(CompleteText)

C1_Witness == Exited(1) /\ fs[project_path] = "file" /\ Len(stdout) = 1

(* C2: when pyproject.toml exists, with or without requirements.txt, the   *)
(* scanner is never run in requirements-file mode, and once the dependency *)
(* audit is over it has been run exactly once, in project-context mode.    *)

C2_PyprojectUsesProjectContext ==
    (IsDirectory /\ HasPyproject) =>
        /\ RunsWhere(FileMode) = {}
        /\ AfterDeps =>
             /\ Cardinality(RunsWhere(ProjectContextMode)) = 1
             /\ RunsWhere(IsScanner) = RunsWhere(ProjectContextMode)

C2_Witness ==
    /\ AfterDeps /\ HasPyproject /\ HasRequirements
    /\ RunsWhere(ProjectContextMode) # {}

(* C3: when requirements.txt exists and pyproject.toml does not, the       *)
(* scanner is never run in project-context mode, and once the dependency   *)
(* audit is over it has been run exactly once, in file mode on the         *)
(* requirements.txt path.                                                  *)

C3_RequirementsOnlyUsesFileMode ==
    (IsDirectory /\ HasRequirements /\ ~HasPyproject) =>
        /\ RunsWhere(ProjectContextMode) = {}
        /\ AfterDeps =>
             /\ Cardinality(RunsWhere(IsScanner)) = 1
             /\ \A i \in RunsWhere(IsScanner) : FileModeOn(trace[i].arg, req)

C3_Witness ==
    /\ AfterDeps /\ HasRequirements /\ ~HasPyproject
    /\ RunsWhere(FileMode) # {}

(* C4: when neither manifest exists, the scanner is never run; once the    *)
(* dependency audit is over the 'No pyproject.toml or requirements.txt     *)
(* found.' text has been printed, the code-quality audit can start, and a  *)
(* finished run has printed the code-quality header after that text.       *)

C4_NoManifestNoScan ==
    (IsDirectory /\ ~HasPyproject /\ ~HasRequirements) =>
        /\ RunsWhere(IsScanner) = {}
        /\ pc # "traceback"
        /\ AfterDeps => Cardinality(PrintedAt(NoManifestText)) = 1
        /\ pc = "check_code_quality" => ENABLED QualityInstall
        /\ pc = "done" =>
             \E i \in PrintedAt(NoManifestText) :
                 \E j \in PrintedAt(QualityHeader) : i < j

C4_Witness ==
    /\ Exited(0) /\ ~HasPyproject /\ ~HasRequirements
    /\ Printed(NoManifestText) /\ Printed(QualityHeader)

(* C5: when the target has no src subdirectory, check_code_quality prints  *)
(* 'No src/ directory found to analyze.' and flake8 is never run.          *)

C5_NoSrcDirectoryNoChecker ==
    (IsDirectory /\ fs[src] # "dir") =>
        /\ RunsWhere(IsChecker) = {}
        /\ AfterQuality => Printed(NoSrcText)

(* C6: with a src entry, when the text returned for the checker is empty   *)
(* or whitespace only, check_code_quality prints 'flake8 found no          *)
(* issues.'; otherwise it prints that text; it never prints blank text,    *)
(* and 'flake8 found no issues.' is printed in no other case.              *)

QualityOutput ==
    LET h == CHOOSE i \in PrintedAt(QualityHeader) : TRUE
    IN  SubSeq(stdout, h + 1, Len(stdout))

C6_NoIssuesIffBlank ==
    /\ (pc = "complete" /\ HasSrcEntry) =>
          /\ Len(QualityOutput) = 1
          /\ ~IsBlank(QualityOutput[1])
          /\ IsBlank(ret) => QualityOutput[1] = NoIssuesText
          /\ ~IsBlank(ret) => QualityOutput[1] = ret
    /\ Printed(NoIssuesText) => (AfterQuality /\ HasSrcEntry /\ IsBlank(ret))

C6_Witness ==
    /\ pc = "complete" /\ fs[src] = "dir"
    /\ ret = <<" ">>
    /\ Printed(NoIssuesText)

(* C7: when project_path is a directory, whatever the install, scanner and *)
(* checker commands do, no exception ends the run, every step before the   *)
(* end can be taken, and a finished run has exit status 0 and has printed  *)
(* the dependency header, then the code-quality header, then 'Audit        *)
(* Complete' last, each once.                                              *)

C7_DirectoryRunsBothAuditsExitsZero ==
    IsDirectory =>
        /\ pc # "traceback"
        /\ pc # "done" => ENABLED Next
        /\ pc = "done" =>
             /\ exit_code = 0
             /\ Cardinality(PrintedAt(DepsHeader)) = 1
             /\ Cardinality(PrintedAt(QualityHeader)) = 1
             /\ PrintedAt(CompleteText) = {Len(stdout)}
             /\ \A i \in PrintedAt(DepsHeader) :
                    \A j \in PrintedAt(QualityHeader) : i < j /\ j < Len(stdout)
             /\ \A i \in RunsWhere(LAMBDA c : IsInstallOf(c, "pip-audit")) :
                    \A j \in RunsWhere(LAMBDA c : IsInstallOf(c, "flake8")) : i < j

C7_Witness ==
    /\ Exited(0)
    /\ RunsWhere(IsScanner) # {}
    /\ \E i \in DOMAIN stdout : IsErrorText(stdout[i])
    /\ last.returncode # 0

(* C8: in both audits, when the scanner or the checker exits with a        *)
(* non-zero status, the text the audit prints includes what the tool wrote *)
(* on its standard output.                                                 *)

C8_FailedToolStdoutPrinted ==
    /\ (pc = "check_code_quality" /\ RunsWhere(IsScanner) # {}
            /\ last.returncode # 0)
          => IsInfix(last.stdout, stdout[Len(stdout)])
    /\ (pc = "complete" /\ RunsWhere(IsChecker) # {} /\ last.returncode # 0)
          => IsInfix(last.stdout, stdout[Len(stdout)])

(* C9: run_command never raises: after every call, if the command exited   *)
(* with status 0 the returned value is its standard output, otherwise it   *)
(* is an error text that ends with the command's standard error.           *)

C9_RunCommandAlwaysReturnsText ==
    /\ pc # "traceback"
    /\ RunsWhere(LAMBDA c : TRUE) # {} =>
          /\ last.returncode = 0 => ret = last.stdout
          /\ last.returncode # 0 =>
                /\ IsErrorText(ret)
                /\ Len(ret) >= Len(last.stderr)
                /\ SubSeq(ret, Len(ret) - Len(last.stderr) + 1, Len(ret))
                       = last.stderr

C9_Witness ==
    /\ RunsWhere(LAMBDA c : TRUE) # {}
    /\ last.returncode # 0 /\ last.stderr # <<>> /\ last.stdout # <<>>
    /\ IsErrorText(ret)

(* C10: in each audit phase the install command is run exactly once,       *)
(* before the phase's existence checks and tool run, also when no manifest *)
(* or src entry exists; what it returns is not printed, and the branch the *)
(* phase takes depends on the file system alone.                           *)

InstalledBefore(i, tool) ==
    \E j \in RunsWhere(LAMBDA c : IsInstallOf(c, tool)) : j < i

C10_InstallOncePerPhaseFirstAndDiscarded ==
    IsDirectory =>
        /\ Cardinality(RunsWhere(LAMBDA c : IsInstallOf(c, "pip-audit"))) =
               (IF pc \in {"main", "check_dependencies"} THEN 0 ELSE 1)
        /\ Cardinality(RunsWhere(LAMBDA c : IsInstallOf(c, "flake8"))) =
               (IF pc \in {"quality_src"} \/ AfterQuality THEN 1 ELSE 0)
        /\ \A i \in ChecksOf(py) \cup ChecksOf(req) \cup RunsWhere(IsScanner) :
               InstalledBefore(i, "pip-audit")
        /\ \A i \in ChecksOf(src) \cup RunsWhere(IsChecker) :
               InstalledBefore(i, "flake8")
        /\ pc = "deps_manifest" =>
               /\ stdout = <<StartingText(project_path), DepsHeader>>
               /\ ENABLED DepsPyproject <=> HasPyproject
               /\ ENABLED DepsRequirements <=> (~HasPyproject /\ HasRequirements)
               /\ ENABLED DepsNone <=> (~HasPyproject /\ ~HasRequirements)
        /\ pc = "quality_src" =>
               /\ stdout[Len(stdout)] = QualityHeader
               /\ Len(stdout) =
                      (IF HasPyproject \/ HasRequirements THEN 5 ELSE 4)
               /\ ENABLED QualitySrc <=> HasSrcEntry
               /\ ENABLED QualityNoSrc <=> ~HasSrcEntry
        /\ AfterDeps =>
               (RunsWhere(IsScanner) # {} <=> (HasPyproject \/ HasRequirements))
        /\ AfterQuality => (RunsWhere(IsChecker) # {} <=> HasSrcEntry)

C10_Witness ==
    /\ Exited(0)
    /\ ~HasPyproject /\ ~HasRequirements /\ ~HasSrcEntry
    /\ last.returncode # 0
    /\ RunsWhere(IsInstall) # {}

====
